---- MODULE Spec2Model ----
(***************************************************************************)
(* Model of src/App.tsx: the App component (raw input, submitted term,     *)
(* image URL) and the ImageDisplay component (error, isLoading) together   *)
(* with the browser's image loads that report back through the <img>       *)
(* element's onLoad / onError handlers.                                    *)
(*                                                                         *)
(* Strings are sequences of UTF-16 code units, as in JavaScript.  A value  *)
(* of type "string | null" is a sequence of length <= 1: Null or Some(s).  *)
(*                                                                         *)
(* A submit is a discrete DOM event: React renders its state updates and   *)
(* flushes the resulting useEffect before the event loop runs another      *)
(* task, so the handler, the re-render and the effect form one step.       *)
(***************************************************************************)
EXTENDS Naturals, Sequences, FiniteSets

\* Longest raw text typed into the input.
MaxLen == 2

\* Most image loads that are abandoned (src replaced or <img> removed) and
\* still in flight at once.
MaxStale == 1

\* The two halves of the surrogate pair of U+1F600.
HI == "\\uD83D"
LO == "\\uDE00"

\* UTF-16 code units that can be typed: a cased letter pair, white space, a
\* character that is reserved in a URL path, and the two surrogates, which
\* are well-formed only as the pair <<HI, LO>>.
Chars == {"A", "a", " ", "/", HI, LO}

\* Greek capital sigma and its two lowercase forms.
SIGMA == "\\u03A3"
SmallSigma == "\\u03C3"
FinalSigma == "\\u03C2"

\* The code units of the normalization runs, which start from a typed text.
WideChars == Chars \cup {SIGMA, SmallSigma, FinalSigma}

RECURSIVE SeqsUpTo(_, _)
SeqsUpTo(S, n) ==
    IF n = 0 THEN {<<>>}
    ELSE LET shorter == SeqsUpTo(S, n - 1)
         IN  shorter \cup {Append(s, c) : s \in {t \in shorter : Len(t) = n - 1}, c \in S}

\* Every text the input element can hold (e.target.value).
Inputs == SeqsUpTo(Chars, MaxLen)
WideInputs == SeqsUpTo(WideChars, MaxLen)

Null == <<>>
Some(v) == <<v>>

-----------------------------------------------------------------------------
\* String.prototype.trim, String.prototype.toLowerCase, encodeURIComponent

IsWhiteSpace(c) == c = " "

RECURSIVE TrimStart(_)
TrimStart(s) ==
    IF s # <<>> /\ IsWhiteSpace(Head(s)) THEN TrimStart(Tail(s)) ELSE s

RECURSIVE TrimEnd(_)
TrimEnd(s) ==
    IF s # <<>> /\ IsWhiteSpace(s[Len(s)])
    THEN TrimEnd(SubSeq(s, 1, Len(s) - 1))
    ELSE s

trim(s) == TrimEnd(TrimStart(s))

IsCased(c) == c \in {"A", "a", SIGMA, SmallSigma, FinalSigma}

\* Unicode Final_Sigma: a capital sigma after a cased letter and not before
\* one (no code unit of the model is case-ignorable).
IsFinalSigma(s, i) ==
    /\ i > 1 /\ IsCased(s[i - 1])
    /\ ~(i < Len(s) /\ IsCased(s[i + 1]))

LowerChar(c) ==
    IF c = "A" THEN "a" ELSE IF c = SIGMA THEN SmallSigma ELSE c

\* A lowercasing that leaves every letter as it is.
toLowerCase_NoFold(s) == s

toLowerCase(s) ==
    [i \in 1..Len(s) |->
        IF s[i] = SIGMA /\ IsFinalSigma(s, i) THEN FinalSigma ELSE LowerChar(s[i])]

\* The result of a call that threw URIError.
URIError == <<"URIError">>

IsUnreserved(c) == c \in {"A", "a"}
IsHighSurrogate(c) == c = HI
IsLowSurrogate(c) == c = LO

\* UTF-8 octets of a code point, each written %XX.
EscapeUnit(c) ==
    IF c = " " THEN "%20"
    ELSE IF c = "/" THEN "%2F"
    ELSE IF c = SIGMA THEN "%CE%A3"
    ELSE IF c = SmallSigma THEN "%CF%83"
    ELSE "%CF%82"
EscapePair(hi, lo) == "%F0%9F%98%80"

\* ECMAScript Encode: walks the code units from position k; a low surrogate
\* on its own, or a high surrogate not followed by a low one, throws.
RECURSIVE Encode(_, _)
Encode(s, k) ==
    IF k > Len(s) THEN <<>>
    ELSE IF IsUnreserved(s[k]) THEN
        LET rest == Encode(s, k + 1)
        IN  IF rest = URIError THEN URIError ELSE <<s[k]>> \o rest
    ELSE IF IsLowSurrogate(s[k]) THEN URIError
    ELSE IF ~IsHighSurrogate(s[k]) THEN
        LET rest == Encode(s, k + 1)
        IN  IF rest = URIError THEN URIError ELSE <<EscapeUnit(s[k])>> \o rest
    ELSE IF k + 1 > Len(s) THEN URIError
    ELSE IF ~IsLowSurrogate(s[k + 1]) THEN URIError
    ELSE
        LET rest == Encode(s, k + 2)
        IN  IF rest = URIError THEN URIError
            ELSE <<EscapePair(s[k], s[k + 1])>> \o rest

encodeURIComponent(s) == Encode(s, 1)

BasePath == "https://fundacioncnse-dilse.org/bddilse/images/stories/"

\* The template literal of handleSubmit; URIError when the encoding throws.
ImageUrlFor(term) ==
    LET enc == encodeURIComponent(term)
    IN  IF enc = URIError THEN URIError ELSE <<BasePath>> \o enc \o <<".png">>

\* The template literal of handleImageError.
ErrorMessage(term) ==
    <<"No se encontro la imagen para la palabra: \"">> \o term
        \o <<"\". Por favor, verifica la ortografia.">>

-----------------------------------------------------------------------------
VARIABLES
    searchTerm,     \* App: raw text of the input
    submittedTerm,  \* App: last submitted term
    imageUrl,       \* App: Null or Some(url)
    error,          \* ImageDisplay: Null or Some(message)
    isLoading,      \* ImageDisplay: BOOLEAN
    outcome,        \* load of the mounted <img>'s present src:
                    \*   "none" | "pending" | "success" | "failure"
    abandoned,      \* loads in flight on the mounted <img> whose src was replaced
    detached,       \* loads in flight on <img> elements that were removed
    lastEvent       \* the event handled last (history)

vars == <<searchTerm, submittedTerm, imageUrl, error, isLoading,
          outcome, abandoned, detached, lastEvent>>

-----------------------------------------------------------------------------
\* What ImageDisplay renders

Placeholder == imageUrl = Null /\ error = Null
ImgMounted == ~Placeholder
Spinner == ImgMounted /\ isLoading
ErrorBox == ImgMounted /\ error # Null /\ ~isLoading
\* An <img> class that looks at isLoading only.
ImgVisible_IgnoresError == ImgMounted /\ ~isLoading

ImgVisible == ImgMounted /\ ~(isLoading \/ error # Null)

Idle == Placeholder
Pending == Spinner
Failure == ErrorBox
Success == ImgVisible

-----------------------------------------------------------------------------
Init ==
    /\ searchTerm = <<>>
    /\ submittedTerm = <<>>
    /\ imageUrl = Null
    /\ error = Null
    /\ isLoading = FALSE
    /\ outcome = "none"
    /\ abandoned = 0
    /\ detached = 0
    /\ lastEvent = [kind |-> "init", of |-> "none"]

\* The texts one edit away from s: a code unit typed at the end, or the last
\* one deleted.  Every text of Inputs is reached by a run of such edits.
Edits(s) ==
    {Append(s, c) : c \in {d \in Chars : Len(s) < MaxLen}}
        \cup {SubSeq(s, 1, Len(s) - 1) : x \in {y \in {s} : y # <<>>}}

\* A search-as-you-type onChange, which also sets the submitted term.
OnChange_AlsoSubmits(v) ==
    /\ searchTerm' = v
    /\ submittedTerm' = v
    /\ lastEvent' = [kind |-> "change", of |-> "none"]
    /\ UNCHANGED <<imageUrl, error, isLoading, outcome, abandoned, detached>>

\* onChange of the input: setSearchTerm(e.target.value)
OnChange(v) ==
    /\ searchTerm' = v
    /\ lastEvent' = [kind |-> "change", of |-> "none"]
    /\ UNCHANGED <<submittedTerm, imageUrl, error, isLoading,
                   outcome, abandoned, detached>>

\* A useEffect whose else branch forgets setError(null).
EffectError_KeepsOnNull(url) == IF url = Null THEN error ELSE Null

\* The useEffect of ImageDisplay, run when imageUrl changed to url.
EffectError(url) == Null
EffectIsLoading(url) == url # Null

InFlight == IF outcome = "pending" THEN 1 ELSE 0

\* The <img> after a render that changed imageUrl from old to new: removed
\* with the placeholder, or given a new src, which starts a load and
\* abandons the one in flight.
ImgAfterUrlChange(new) ==
    IF new = Null
    THEN /\ outcome' = "none"
         /\ abandoned' = 0
         /\ detached' = detached + abandoned + InFlight
    ELSE /\ outcome' = "pending"
         /\ abandoned' = abandoned + InFlight
         /\ detached' = detached

\* A useEffect without its [imageUrl] dependency: it runs on every render.
Render_EffectEveryRender(new) ==
    /\ imageUrl' = new
    /\ error' = EffectError(new)
    /\ isLoading' = EffectIsLoading(new)
    /\ IF new = imageUrl
       THEN UNCHANGED <<outcome, abandoned, detached>>
       ELSE ImgAfterUrlChange(new)

\* State after setImageUrl(new) has been rendered.
Render(new) ==
    IF new = imageUrl
    THEN UNCHANGED <<imageUrl, error, isLoading, outcome, abandoned, detached>>
    ELSE /\ imageUrl' = new
         /\ error' = EffectError(new)
         /\ isLoading' = EffectIsLoading(new)
         /\ ImgAfterUrlChange(new)

cleanTerm(raw) == toLowerCase(trim(raw))

\* onSubmit of the form
handleSubmit ==
    LET term == cleanTerm(searchTerm)
        url == ImageUrlFor(term)
    IN  /\ UNCHANGED searchTerm
        /\ IF term = <<>>
           THEN /\ submittedTerm' = <<>>
                /\ Render(Null)
                /\ lastEvent' = [kind |-> "submit", of |-> "none"]
           ELSE IF url = URIError
           THEN \* setSubmittedTerm ran, then encodeURIComponent threw
                /\ submittedTerm' = term
                /\ UNCHANGED <<imageUrl, error, isLoading,
                               outcome, abandoned, detached>>
                /\ lastEvent' = [kind |-> "submit", of |-> "URIError"]
           ELSE /\ submittedTerm' = term
                /\ Render(Some(url))
                /\ lastEvent' = [kind |-> "submit", of |-> "none"]
        /\ abandoned' + detached' <= MaxStale

\* handleImageError / handleImageLoad, as attached to the rendered <img>
handleImageError ==
    /\ error' = Some(ErrorMessage(submittedTerm))
    /\ isLoading' = FALSE

\* An onLoad handler that forgets setIsLoading(false).
handleImageLoad_KeepsLoading == UNCHANGED <<isLoading, error>>

\* An onLoad handler that also clears the error.
handleImageLoad_ClearsError ==
    /\ isLoading' = FALSE
    /\ error' = Null

handleImageLoad ==
    /\ isLoading' = FALSE
    /\ UNCHANGED error

Handler(ok) == IF ok THEN handleImageLoad ELSE handleImageError

EventKind(ok) == IF ok THEN "load" ELSE "error"

\* The load of the present src finishes.
NotifyCurrent(ok) ==
    /\ outcome = "pending"
    /\ outcome' = IF ok THEN "success" ELSE "failure"
    /\ Handler(ok)
    /\ lastEvent' = [kind |-> EventKind(ok), of |-> "current"]
    /\ UNCHANGED <<searchTerm, submittedTerm, imageUrl, abandoned, detached>>

\* A load of a replaced src finishes on the <img> that is still rendered.
NotifyAbandoned(ok) ==
    /\ abandoned > 0
    /\ abandoned' = abandoned - 1
    /\ Handler(ok)
    /\ lastEvent' = [kind |-> EventKind(ok), of |-> "abandoned"]
    /\ UNCHANGED <<searchTerm, submittedTerm, imageUrl, outcome, detached>>

\* A notification of a removed <img> that still reaches the handlers.
NotifyDetached_RunsHandler(ok) ==
    /\ detached > 0
    /\ detached' = detached - 1
    /\ Handler(ok)
    /\ lastEvent' = [kind |-> EventKind(ok), of |-> "detached"]
    /\ UNCHANGED <<searchTerm, submittedTerm, imageUrl, outcome, abandoned>>

\* A load finishes on an <img> that is no longer rendered: no handler runs.
NotifyDetached(ok) ==
    /\ detached > 0
    /\ detached' = detached - 1
    /\ lastEvent' = [kind |-> EventKind(ok), of |-> "detached"]
    /\ UNCHANGED <<searchTerm, submittedTerm, imageUrl, error, isLoading,
                   outcome, abandoned>>

Next ==
    \/ \E v \in Edits(searchTerm) : OnChange(v)
    \/ handleSubmit
    \/ \E ok \in BOOLEAN : NotifyCurrent(ok)
    \/ \E ok \in BOOLEAN : NotifyAbandoned(ok)
    \/ \E ok \in BOOLEAN : NotifyDetached(ok)

Spec == Init /\ [][Next]_vars

\* Normalization runs: any text has been typed into the input of the freshly
\* mounted App, and it is submitted.
InitNorm ==
    /\ searchTerm \in WideInputs
    /\ submittedTerm = <<>>
    /\ imageUrl = Null
    /\ error = Null
    /\ isLoading = FALSE
    /\ outcome = "none"
    /\ abandoned = 0
    /\ detached = 0
    /\ lastEvent = [kind |-> IF searchTerm = <<>> THEN "init" ELSE "change",
                    of |-> "none"]

NextNorm == handleSubmit

SpecNorm == InitNorm /\ [][NextNorm]_vars

TypeOK ==
    /\ searchTerm \in Inputs
    /\ isLoading \in BOOLEAN
    /\ outcome \in {"none", "pending", "success", "failure"}
    /\ abandoned \in 0..MaxStale
    /\ detached \in 0..MaxStale

-----------------------------------------------------------------------------
\* Vocabulary of the properties

\* A raw input that is empty or made of white space only.
IsBlank(raw) == \A i \in 1..Len(raw) : raw[i] = " "

\* The last event was a submit of the text now in the input (a submit leaves
\* searchTerm as it is).
Submitted == lastEvent.kind = "submit"

NormalizedTerms == {cleanTerm(raw) : raw \in Inputs}

\* The term the present image reference was resolved from.
ReferenceTerm == CHOOSE t \in NormalizedTerms : Some(ImageUrlFor(t)) = imageUrl

\* This step starts an image load.
LoadStarted ==
    /\ outcome' = "pending"
    /\ outcome # "pending" \/ abandoned' > abandoned

-----------------------------------------------------------------------------
\* C1: the notification of a load that was abandoned because a second
\* submission replaced its reference while it was pending never changes the
\* displayed state (error, isLoading).
C1_StaleOutcomeDiscarded ==
    [][lastEvent'.of = "abandoned" => UNCHANGED <<error, isLoading>>]_vars

\* C2: after a submit of an empty or white-space-only input the state is Idle:
\* placeholder shown, no spinner, no error, no image, imageUrl null and
\* submittedTerm empty, whatever the state was before.
C2_BlankSubmitYieldsIdle ==
    (Submitted /\ IsBlank(searchTerm)) =>
        /\ Idle /\ ~Spinner /\ ~ErrorBox /\ ~ImgVisible
        /\ ~isLoading /\ error = Null
        /\ imageUrl = Null /\ submittedTerm = <<>>

\* A white-space-only submit that removed an <img> whose load was in flight.
C2_Witness ==
    /\ Submitted /\ IsBlank(searchTerm) /\ searchTerm # <<>>
    /\ detached > 0 /\ Idle

\* C3: after a submit of an input whose normalized form is non-empty, the
\* image reference is the resolver's URL of that form and the state is Pending.
C3_SubmitYieldsUrlAndPending ==
    (Submitted /\ ~IsBlank(searchTerm)) =>
        /\ imageUrl = Some(ImageUrlFor(cleanTerm(searchTerm)))
        /\ Pending /\ error = Null

\* C4: a submit, in a state that is not Idle, of a normalized term that is
\* non-empty and differs from the submitted one leads to Pending with the
\* error cleared and the loading flag set.
C4_ResubmitReentersPending ==
    [][(/\ lastEvent'.kind = "submit"
        /\ ~Idle
        /\ ~IsBlank(searchTerm)
        /\ cleanTerm(searchTerm) # submittedTerm)
       => (Pending' /\ error' = Null /\ isLoading')]_vars

\* C5: when the load of the present reference fails in state Pending, the
\* state becomes Failure and the message names the term that reference was
\* resolved from.
C5_FailureNamesFailedTerm ==
    [][(Pending /\ lastEvent'.kind = "error" /\ lastEvent'.of = "current")
       => (Failure' /\ error' = Some(ErrorMessage(ReferenceTerm)))]_vars

\* C6: a load-success notification received in state Pending leads to
\* Success, and a step from Success to Pending is always a submit.
C6_SuccessIsStable ==
    [][/\ (Pending /\ lastEvent'.kind = "load" /\ lastEvent'.of # "detached")
            => Success'
       /\ (Success /\ Pending') => lastEvent'.kind = "submit"]_vars

\* The present reference's load succeeded and the image is shown.
C6_Witness ==
    /\ lastEvent = [kind |-> "load", of |-> "current"]
    /\ outcome = "success" /\ Success

\* C7: imageUrl is non-null exactly when submittedTerm is non-empty, and
\* then it is the resolver's URL of submittedTerm.
C7_UrlMatchesSubmittedTerm ==
    /\ imageUrl # Null <=> submittedTerm # <<>>
    /\ imageUrl # Null => imageUrl = Some(ImageUrlFor(submittedTerm))

\* C8: while the submitted term is empty (from an empty submit until the next
\* submit of a non-empty term) the state is Idle and no error is set, also
\* after a notification of an abandoned load has arrived.
C8_BlankSubmitIsSilentReset ==
    submittedTerm = <<>> => (Idle /\ error = Null /\ ~ErrorBox)

\* A failure notification of a removed <img> arrived after an empty submit.
C8_Witness ==
    /\ submittedTerm = <<>>
    /\ lastEvent = [kind |-> "error", of |-> "detached"]
    /\ Idle

\* C9: a step from Failure that is not a submit stays in Failure and starts
\* no load; every step that starts a load is a submit.
C9_NoAutomaticRetry ==
    [][/\ (Failure /\ lastEvent'.kind # "submit") => (Failure' /\ ~LoadStarted)
       /\ LoadStarted => lastEvent'.kind = "submit"]_vars

\* In Failure, the present reference's load then completed and nothing changed.
C9_Witness ==
    /\ Failure /\ error # Null
    /\ lastEvent = [kind |-> "load", of |-> "current"]

\* C10: a submit of an input whose normalized form is non-empty never throws
\* and sets an image URL.
C10_SubmitNeverThrows ==
    Submitted =>
        /\ lastEvent.of # "URIError"
        /\ ~IsBlank(searchTerm) => imageUrl # Null

-----------------------------------------------------------------------------
\* Percent-decoding, as the properties use it: each %XX run of a code point
\* gives back its code units, every other unit stands for itself.
DecodeUnit(u) ==
    IF u = "%20" THEN <<" ">>
    ELSE IF u = "%2F" THEN <<"/">>
    ELSE IF u = "%F0%9F%98%80" THEN <<HI, LO>>
    ELSE IF u = "%CE%A3" THEN <<SIGMA>>
    ELSE IF u = "%CF%83" THEN <<SmallSigma>>
    ELSE IF u = "%CF%82" THEN <<FinalSigma>>
    ELSE <<u>>

RECURSIVE PercentDecode(_)
PercentDecode(s) ==
    IF s = <<>> THEN <<>> ELSE DecodeUnit(Head(s)) \o PercentDecode(Tail(s))

\* The final path segment of a URL without its ".png" suffix: what follows
\* the last "/" (BasePath ends in one, an encoded term holds none).
FinalSegment(url) == SubSeq(url, 2, Len(url) - 1)

\* C11: for every raw input whose normalized form is non-empty, a submit
\* resolves a URL whose final path segment, without ".png", percent-decodes
\* to trim(lower(s)).
C11_DecodeRoundTrip ==
    (Submitted /\ ~IsBlank(searchTerm)) =>
        /\ imageUrl # Null
        /\ PercentDecode(FinalSegment(imageUrl[1])) = trim(toLowerCase(searchTerm))

-----------------------------------------------------------------------------
\* Two code units that are equal or differ only in case.
CaseVariants(a, b) ==
    \/ a = b
    \/ {a, b} = {"A", "a"}
    \/ {a, b} = {SIGMA, SmallSigma}
    \/ {a, b} = {SIGMA, FinalSigma}

\* The same, for letters whose lowercase form does not depend on position.
FixedCaseVariants(a, b) == a = b \/ {a, b} = {"A", "a"}

\* s without its leading and trailing white space.
Core(s) ==
    LET inked == {i \in 1..Len(s) : s[i] # " "}
    IN  IF inked = {} THEN <<>>
        ELSE SubSeq(s, CHOOSE i \in inked : \A j \in inked : i <= j,
                       CHOOSE i \in inked : \A j \in inked : i >= j)

\* r1 and r2 differ only in letter case and leading/trailing white space.
DifferOnlyInCaseAndSpace(r1, r2) ==
    LET a == Core(r1)
        b == Core(r2)
    IN  Len(a) = Len(b) /\ \A i \in 1..Len(a) : CaseVariants(a[i], b[i])

DifferOnlyInFixedCaseAndSpace(r1, r2) ==
    LET a == Core(r1)
        b == Core(r2)
    IN  Len(a) = Len(b) /\ \A i \in 1..Len(a) : FixedCaseVariants(a[i], b[i])

\* Submitting r gives the submittedTerm and the image reference that the
\* submit just made gave.
SameSubmitResult(r) ==
    /\ cleanTerm(r) = submittedTerm
    /\ IF lastEvent.of = "URIError" THEN ImageUrlFor(cleanTerm(r)) = URIError
       ELSE IF cleanTerm(r) = <<>> THEN imageUrl = Null
       ELSE imageUrl = Some(ImageUrlFor(cleanTerm(r)))

\* C12 (as claimed): every raw input that differs from the submitted one only
\* in letter case and leading/trailing white space gives the same
\* submittedTerm and the same image reference.
C12_CaseAndSpaceInsensitive ==
    Submitted =>
        \A r \in WideInputs :
            DifferOnlyInCaseAndSpace(r, searchTerm) => SameSubmitResult(r)

\* C12 (amended): the same for inputs that differ only in leading/trailing
\* white space and in the case of letters whose lowercase form does not
\* depend on their position.
C12_FixedCaseAndSpaceInsensitive ==
    Submitted =>
        \A r \in WideInputs :
            DifferOnlyInFixedCaseAndSpace(r, searchTerm) => SameSubmitResult(r)

\* "A " was submitted and gave what "a" gives.
C12_Witness ==
    /\ Submitted /\ searchTerm = <<"A", " ">>
    /\ submittedTerm = <<"a">>
    /\ imageUrl = Some(<<BasePath, "a", ".png">>)
    /\ DifferOnlyInFixedCaseAndSpace(<<"a">>, searchTerm)

-----------------------------------------------------------------------------
\* The number of the four visual states that are displayed.
Shown(b) == IF b THEN 1 ELSE 0

\* C13: exactly one of placeholder, loading indicator, error message and
\* visible image is displayed; the last three exclude each other, and the
\* placeholder is shown exactly when imageUrl is null and no error is set.
C13_ExactlyOneVisualState ==
    /\ Shown(Placeholder) + Shown(Spinner) + Shown(ErrorBox) + Shown(ImgVisible) = 1
    /\ ~(Spinner /\ ErrorBox) /\ ~(Spinner /\ ImgVisible) /\ ~(ErrorBox /\ ImgVisible)
    /\ Placeholder <=> (imageUrl = Null /\ error = Null)

\* The error message is displayed after a load failure, and nothing else.
C13_Witness ==
    /\ lastEvent.kind = "error" /\ error # Null /\ imageUrl # Null
    /\ ErrorBox /\ ~Spinner /\ ~ImgVisible /\ ~Placeholder

\* C14: an input change leaves submittedTerm, imageUrl, isLoading and error
\* as they are, and with them the displayed state.
C14_KeystrokeOnlyChangesInput ==
    [][lastEvent'.kind = "change" =>
        /\ UNCHANGED <<submittedTerm, imageUrl, isLoading, error>>
        /\ Idle' = Idle /\ Pending' = Pending
        /\ Failure' = Failure /\ Success' = Success]_vars

\* After a keystroke the failure message still names the submitted term,
\* which is no longer the normalized form of the input.
C14_Witness ==
    /\ lastEvent.kind = "change"
    /\ Failure /\ error = Some(ErrorMessage(submittedTerm))
    /\ cleanTerm(searchTerm) # submittedTerm

\* C15: a submit of an input whose normalized form is the submitted term
\* changes nothing: submittedTerm, imageUrl, error and isLoading keep their
\* values and no load is started or abandoned.
C15_SameTermResubmitIsNoOp ==
    [][(lastEvent'.kind = "submit" /\ cleanTerm(searchTerm) = submittedTerm) =>
        /\ UNCHANGED <<searchTerm, submittedTerm, imageUrl, error, isLoading>>
        /\ UNCHANGED <<outcome, abandoned, detached>>
        /\ ~LoadStarted]_vars

\* The term on display was submitted again after its load had failed, and
\* the failure is still displayed.
C15_Witness ==
    /\ Submitted /\ lastEvent.of = "none"
    /\ cleanTerm(searchTerm) = submittedTerm
    /\ Failure /\ outcome = "failure"
    /\ imageUrl = Some(ImageUrlFor(submittedTerm))
====
